---- MODULE Spec2Model ----
(***************************************************************************)
(* A model of cwjcw/stocks-rss: the stock-code normaliser, the provider    *)
(* adapters (TuShare / Eastmoney), the item composers and the batch        *)
(* driver that writes one RSS file per user.                               *)
(*                                                                         *)
(* Strings whose characters matter (stock codes) are sequences of          *)
(* one-character strings.  None stands for Python's None.                  *)
(***************************************************************************)
EXTENDS Integers, Sequences, FiniteSets, TLC

VARIABLES
    \* ---- normalize_code under test
    raw,        \* the raw identifier given to normalize_code
    n1,         \* outcome of normalize_code(raw)
    n2,         \* outcome of normalize_code applied to its own output
    npc,        \* "start" | "once" | "twice"
    \* ---- data_providers module state and the process environment
    env,        \* os.environ.get("TUSHARE_TOKEN"): None (unset) or <<text>>
    PRO,        \* data_providers._PRO: None or <<client>>
    call,       \* the last call made into data_providers and how it ended
    result,     \* what that call returned
    \* ---- one composed feed
    feed,       \* the composer last run, what it was given and the entries it made
    \* ---- build_all.main and the files under OUTPUT_DIR
    configs,    \* sorted(USERS_DIR.glob("*.yaml")), each path with what it holds
    bpc,        \* where main() is: "start" | "load" | "build" | "done" | "crashed"
    idx,        \* the position of the running loop
    users,      \* main's users
    generated,  \* main's generated
    written,    \* the feed files written
    built       \* for each user of users so far, whether build_feed_for_user returned

normVars == <<raw, n1, n2, npc>>
provVars == <<env, PRO, call, result>>
batchVars == <<configs, bpc, idx, users, generated, written, built>>
vars == <<raw, n1, n2, npc, env, PRO, call, result, feed, configs, bpc, idx, users, generated,
          written, built>>
nonNormVars == <<provVars, feed, batchVars>>
nonProvVars == <<normVars, feed, batchVars>>
nonBatchVars == <<normVars, provVars, feed>>

\* Python's None is the empty tuple; a present value v is <<v>>.
None == <<>>
Some(v) == <<v>>
Val(o) == o[1]

(***************************************************************************)
(* The parts of the state a specification does not use stay as they are    *)
(* here.                                                                   *)
(***************************************************************************)
NotRun == [raised |-> FALSE, value |-> <<>>]

NormIdle ==
    /\ raw = <<>>
    /\ n1 = NotRun
    /\ n2 = NotRun
    /\ npc = "idle"

Call(fn, codes, raised, readEnv, requests, plan) ==
    [fn |-> fn, codes |-> codes, raised |-> raised, readEnv |-> readEnv,
     requests |-> requests, plan |-> plan]
NoCall == Call("none", <<>>, FALSE, FALSE, 0, <<>>)

ProvIdle ==
    /\ env = None
    /\ PRO = None
    /\ call = NoCall
    /\ result = None

NoFeed == [fn |-> "none", raised |-> FALSE, items |-> <<>>, stocks |-> <<>>, quotes_df |-> <<>>]

FeedIdle == feed = NoFeed

BatchIdle ==
    /\ configs = <<>>
    /\ bpc = "idle"
    /\ idx = 0
    /\ users = <<>>
    /\ generated = <<>>
    /\ written = {}
    /\ built = <<>>

(***************************************************************************)
(* Characters and the string methods normalize_code uses.                  *)
(***************************************************************************)
Digits == {"0", "1", "2", "3", "4", "5", "6", "7", "8", "9"}

\* str.lower() on the characters of the model's alphabet
LowerChar(ch) ==
    CASE ch = "S" -> "s"
      [] ch = "H" -> "h"
      [] ch = "Z" -> "z"
      [] OTHER -> ch

lower(s) == [i \in 1..Len(s) |-> LowerChar(s[i])]

IsSpace(ch) == ch = " "

RECURSIVE lstrip(_)
lstrip(s) == IF s # <<>> /\ IsSpace(Head(s)) THEN lstrip(Tail(s)) ELSE s

RECURSIVE rstrip(_)
rstrip(s) ==
    IF s # <<>> /\ IsSpace(s[Len(s)]) THEN rstrip(SubSeq(s, 1, Len(s) - 1)) ELSE s

\* str.strip()
strip(s) == rstrip(lstrip(s))

\* s[-6:]
Last6(s) == IF Len(s) <= 6 THEN s ELSE SubSeq(s, Len(s) - 5, Len(s))

\* \d in a str pattern matches every Unicode decimal digit, not only 0-9;
\* "U+0663" (ARABIC-INDIC DIGIT THREE) stands for the ones outside ASCII.
\* lower() and strip() leave it as it is.
ReDigits == Digits \cup {"U+0663"}

AllDigits(s, from, to) == \A i \in from..to : s[i] \in ReDigits

\* re.match(r"^(sh|sz)\d{6}$", code)
IsPrefixed(c) ==
    /\ Len(c) = 8
    /\ c[1] = "s"
    /\ c[2] \in {"h", "z"}
    /\ AllDigits(c, 3, 8)

\* the pattern without its end anchor
IsBare6_NoAnchor(c) == Len(c) >= 6 /\ AllDigits(c, 1, 6)

\* re.match(r"^\d{6}$", code)
IsBare6(c) == Len(c) = 6 /\ AllDigits(c, 1, 6)

Returned(v) == [raised |-> FALSE, value |-> v]
ValueError == [raised |-> TRUE, value |-> <<"ValueError">>]

\* normalize_code without the "already prefixed" early return
normalize_code_NoPrefixCase(code) ==
    LET c == lower(strip(code)) IN
    IF IsBare6(c)
    THEN Returned((IF c[1] \in {"6", "9", "5"} THEN <<"s", "h">> ELSE <<"s", "z">>) \o c)
    ELSE ValueError

normalize_code(code) ==
    LET c == lower(strip(code)) IN
    IF IsPrefixed(c) THEN Returned(c)
    ELSE IF IsBare6(c)
    THEN Returned((IF c[1] \in {"6", "9", "5"} THEN <<"s", "h">> ELSE <<"s", "z">>) \o c)
    ELSE ValueError

(***************************************************************************)
(* SpecNorm: normalize_code applied to a raw identifier, then to its own   *)
(* output.                                                                 *)
(***************************************************************************)
RawPrefixes ==
    {<<>>, <<"s", "h">>, <<"s", "z">>, <<"S", "H">>, <<"s", "x">>, <<"h", "s">>, <<" ">>}
RawFirsts == ReDigits \cup {"a"}
RawTails ==
    {<<"0", "0", "0", "0", "1">>, <<"0", "0", "5", "1", "9">>, <<"0", "0", "0", "1">>,
     <<"0", "0", "0", "0", "1", "1">>, <<"0", "0", "0", "0", "a">>}
RawSuffixes == {<<>>, <<" ">>, <<"x">>}

RawCodes ==
    {p \o <<f>> \o t \o s : p \in RawPrefixes, f \in RawFirsts, t \in RawTails,
                            s \in RawSuffixes}

NormInit ==
    /\ raw \in RawCodes
    /\ n1 = NotRun
    /\ n2 = NotRun
    /\ npc = "start"
    /\ ProvIdle
    /\ FeedIdle
    /\ BatchIdle

\* normalize_code(raw)
NormalizeOnce ==
    /\ npc = "start"
    /\ n1' = normalize_code(raw)
    /\ npc' = "once"
    /\ UNCHANGED <<raw, n2>>
    /\ UNCHANGED nonNormVars

\* normalize_code(normalize_code(raw)), when the first call returned
NormalizeAgain ==
    /\ npc = "once"
    /\ ~n1.raised
    /\ n2' = normalize_code(n1.value)
    /\ npc' = "twice"
    /\ UNCHANGED <<raw, n1>>
    /\ UNCHANGED nonNormVars

NormNext == NormalizeOnce \/ NormalizeAgain

SpecNorm == NormInit /\ [][NormNext]_vars

\* C3: for every bare 6-digit identifier, normalize_code returns (never raises)
\* an exchange-prefixed code made of the prefix and the same six digits, and
\* applying it again to that output returns the output unchanged.
C3_NormalizeTotalIdempotent ==
    (Len(raw) = 6 /\ \A i \in 1..6 : raw[i] \in ReDigits) =>
        /\ npc # "start" =>
              /\ ~n1.raised
              /\ Len(n1.value) = 8
              /\ SubSeq(n1.value, 1, 2) \in {<<"s", "h">>, <<"s", "z">>}
              /\ SubSeq(n1.value, 3, 8) = raw
        /\ npc = "twice" => (~n2.raised /\ n2.value = n1.value)

C3_Witness ==
    /\ Len(raw) = 6 /\ \A i \in 1..6 : raw[i] \in Digits
    /\ npc = "twice"
    /\ n2.value = <<"s", "h", "6", "0", "0", "5", "1", "9">>

\* The stated notion of well-formed: six decimal digits, or sh/sz followed by
\* six decimal digits.  Anything else is malformed.
WellFormedText(s) ==
    \/ Len(s) = 6 /\ \A i \in 1..6 : s[i] \in ReDigits
    \/ /\ Len(s) = 8
       /\ SubSeq(s, 1, 2) \in {<<"s", "h">>, <<"s", "z">>}
       /\ \A i \in 3..8 : s[i] \in ReDigits

\* C4 as stated: every raw identifier that is not six digits and not sh/sz
\* followed by six digits makes normalize_code raise ValueError.
C4_MalformedRaisesAsStated ==
    (npc # "start" /\ ~WellFormedText(raw)) => n1 = ValueError

\* C4 (amended): every raw identifier that, once surrounding whitespace is
\* stripped and its letters are lower-cased, is not six digits and not sh/sz
\* followed by six digits makes normalize_code raise ValueError and return
\* no code.
C4_MalformedRaises ==
    (npc # "start" /\ ~WellFormedText(lower(strip(raw)))) => n1 = ValueError

C4_Witness ==
    /\ npc = "once"
    /\ raw = <<"s", "x", "6", "0", "0", "5", "1", "9">>
    /\ n1 = ValueError

(***************************************************************************)
(* Numbers.  Floats are fixed-point integers; each use names its unit.     *)
(***************************************************************************)
\* round(n / d) as Python 3 rounds: to the nearest, ties to even (d > 0)
RoundDiv(n, d) ==
    LET q == n \div d
        r == n % d
    IN  IF 2 * r < d THEN q
        ELSE IF 2 * r > d THEN q + 1
        ELSE IF q % 2 = 0 THEN q ELSE q + 1

\* A cell of a provider response: a number, a text that holds a number
\* ("1,234.5", "3.2%"), NaN, a dash ("-", "—", ""), or nothing at all.
NumCell(v) == [k |-> "num", v |-> v]
TxtCell(v) == [k |-> "txt", v |-> v]
NanCell == [k |-> "nan", v |-> 0]
DashCell == [k |-> "dash", v |-> 0]
NoCell == [k |-> "none", v |-> 0]

\* _to_float: None, "", "—", "nan" and unparsable text give None
_to_float(x) == IF x.k \in {"num", "txt"} THEN Some(x.v) ELSE None

(***************************************************************************)
(* The cached TuShare client.                                              *)
(***************************************************************************)
\* _get_pro that reads the environment on every call
_get_pro_NoCache(pro, e) ==
    LET token == strip(IF e = None THEN <<>> ELSE Val(e)) IN
    IF token = <<>>
    THEN [raised |-> TRUE, PRO |-> pro, readEnv |-> TRUE]
    ELSE [raised |-> FALSE, PRO |-> Some(token), readEnv |-> TRUE]

\* _get_pro: pro is _PRO on entry, e the environment's TUSHARE_TOKEN.
\* Gives whether it raised, _PRO on exit (also the client returned) and
\* whether the environment was read.
_get_pro(pro, e) ==
    IF pro # None
    THEN [raised |-> FALSE, PRO |-> pro, readEnv |-> FALSE]
    ELSE LET token == strip(IF e = None THEN <<>> ELSE Val(e)) IN
         IF token = <<>>
         THEN [raised |-> TRUE, PRO |-> None, readEnv |-> TRUE]
         ELSE [raised |-> FALSE, PRO |-> Some(token), readEnv |-> TRUE]

(***************************************************************************)
(* get_northbound_overview.  Amounts are in 0.001 亿元.                    *)
(***************************************************************************)
ShAliases == <<"sh_net", "hgt", "north_sh", "sh_value">>
SzAliases == <<"sz_net", "sgt", "north_sz", "sz_value">>
TotalAliases == <<"hsgt_net", "north_money", "north_net", "north_value">>

\* pick that returns the first alias present in the row, whatever its cell
RECURSIVE pick_FirstPresent(_, _)
pick_FirstPresent(row, cols) ==
    IF cols = <<>> THEN None
    ELSE IF Head(cols) \in DOMAIN row THEN _to_float(row[Head(cols)])
         ELSE pick_FirstPresent(row, Tail(cols))

\* pick(row, cols): the first alias present in the row whose cell is a number
RECURSIVE pick(_, _)
pick(row, cols) ==
    IF cols = <<>> THEN None
    ELSE IF Head(cols) \in DOMAIN row /\ _to_float(row[Head(cols)]) # None
         THEN _to_float(row[Head(cols)])
         ELSE pick(row, Tail(cols))

\* r2: round(float(x), 2), None kept
r2(x) == IF x = None THEN None ELSE Some(RoundDiv(Val(x), 10) * 10)

ts_now == "now"

Overview(sh, sz, total) ==
    [sh |-> r2(sh), sz |-> r2(sz), total |-> r2(total), time |-> ts_now]

\* df.sort_values("trade_date").iloc[-1]
RECURSIVE LastByDate(_)
LastByDate(df) ==
    IF Len(df) = 1 THEN df[1]
    ELSE LET rest == LastByDate(Tail(df)) IN
         IF Head(df).trade_date > rest.trade_date THEN Head(df) ELSE rest

\* total = sh + sz if total is None and both sh and sz are present
TotalFallback(sh, sz) ==
    IF sh # None /\ sz # None THEN Some(Val(sh) + Val(sz)) ELSE None

\* gp: what _get_pro gave; today, week: the replies of pro.moneyflow_hsgt for
\* today and for the last 7 days, each [k |-> "raise" | "empty" | "rows", df].
get_northbound_overview(gp, today, week) ==
    IF gp.raised \/ today.k = "raise" THEN Overview(None, None, None)
    ELSE LET reply == IF today.k = "empty" THEN week ELSE today IN
         IF reply.k # "rows" THEN Overview(None, None, None)
         ELSE LET row == LastByDate(reply.df).cols
                  sh == pick(row, ShAliases)
                  sz == pick(row, SzAliases)
                  tot == pick(row, TotalAliases)
              IN  Overview(sh, sz, IF tot = None THEN TotalFallback(sh, sz) ELSE tot)

(***************************************************************************)
(* Dictionaries keyed by canonical code.                                   *)
(***************************************************************************)
EmptyDict == <<>>
Put(d, key, v) == [x \in (DOMAIN d) \cup {key} |-> IF x = key THEN v ELSE d[x]]

(***************************************************************************)
(* get_realtime_quotes.  Prices are in 0.01 元, volumes in 手, amounts in  *)
(* 0.01 万元, percentages in 0.001 %.                                      *)
(***************************************************************************)
Quote(code, name, price, pct, amount_wan) ==
    [code |-> code, name |-> name, price |-> price, pct |-> pct,
     amount_wan |-> amount_wan, time |-> ts_now]

\* _to_ts_code: sh600519 -> 600519.SH, sz000001 -> 000001.SZ
_to_ts_code(c) ==
    <<Last6(c), IF SubSeq(c, 1, 2) = <<"s", "h">> THEN "SH" ELSE "SZ">>

\* The name pro.stock_basic knows a security by
NameOf(ts_code) ==
    CASE ts_code = <<<<"0", "0", "0", "0", "0", "1">>, "SH">> -> "szzs"
      [] ts_code = <<<<"0", "0", "0", "0", "0", "1">>, "SZ">> -> "payh"
      [] OTHER -> "gzmt"

\* _get_name: basic is "ok" when the name is in _NAME_CACHE or pro.stock_basic
\* returns it, "empty" or "raise" when neither does; failure gives "".
_get_name(ts_code, basic) == IF basic = "ok" THEN NameOf(ts_code) ELSE ""

\* _calc_amount_wan_from_minbar: close * vol / 100, then float(f"{amt:.2f}")
_calc_amount_wan_from_minbar(close, vol_hand) ==
    IF close = None \/ vol_hand = None THEN None
    ELSE Some(RoundDiv(Val(close) * Val(vol_hand), 100))

\* The body of the per-code loop: bar is the reply of ts.pro_bar
\* ([k |-> "raise" | "empty" | "rows", close, vol, pct_chg] of the last bar),
\* daily the reply of pro.daily ([k, has_pre_close, pre_close, n, prev_row_close]).
QuoteOf(c2, name, bar, daily) ==
    IF bar.k = "raise" THEN Quote(c2, name, None, None, None)
    ELSE LET price == IF bar.k = "rows" THEN _to_float(bar.close) ELSE None
             amt == IF bar.k = "rows"
                    THEN _calc_amount_wan_from_minbar(price, _to_float(bar.vol))
                    ELSE None
             pct0 == IF bar.k = "rows" THEN _to_float(bar.pct_chg) ELSE None
             prev_close == IF daily.k # "rows" THEN None
                           ELSE _to_float(IF daily.has_pre_close THEN daily.pre_close
                                          ELSE IF daily.n >= 2 THEN daily.prev_row_close
                                          ELSE NoCell)
             pct == IF pct0 # None THEN r2(pct0)
                    ELSE IF daily.k = "raise" THEN None
                    ELSE IF price # None /\ prev_close # None /\ Val(prev_close) # 0
                         THEN Some(RoundDiv((Val(price) - Val(prev_close)) * 10000,
                                            Val(prev_close)) * 10)
                         ELSE None
         IN  Quote(c2, name, price, pct, amt)

RECURSIVE QuotesLoop(_, _, _, _)
QuotesLoop(codes, beh, i, res) ==
    IF i > Len(codes) THEN [raised |-> FALSE, value |-> res]
    ELSE LET nc == normalize_code(codes[i]) IN
         IF nc.raised THEN [raised |-> TRUE, value |-> res]
         ELSE LET c2 == nc.value
                  name == _get_name(_to_ts_code(c2), beh[i].basic)
              IN  QuotesLoop(codes, beh, i + 1,
                             Put(res, c2, QuoteOf(c2, name, beh[i].bar, beh[i].daily)))

RECURSIVE QuotePlaceholders(_, _, _)
QuotePlaceholders(codes, i, res) ==
    IF i > Len(codes) THEN [raised |-> FALSE, value |-> res]
    ELSE LET nc == normalize_code(codes[i]) IN
         IF nc.raised THEN [raised |-> TRUE, value |-> res]
         ELSE QuotePlaceholders(codes, i + 1,
                                Put(res, nc.value, Quote(nc.value, "", None, None, None)))

\* get_realtime_quotes: gp is what _get_pro gave, beh[i] the providers'
\* replies for the i-th code.
get_realtime_quotes(codes, gp, beh) ==
    IF codes = <<>> THEN [raised |-> FALSE, value |-> EmptyDict]
    ELSE IF gp.raised THEN QuotePlaceholders(codes, 1, EmptyDict)
    ELSE QuotesLoop(codes, beh, 1, EmptyDict)

(***************************************************************************)
(* get_fund_flow_batch.  Provider amounts are in 元, results in 万元.      *)
(***************************************************************************)
FundFlow(code, main, huge, large, medium, small) ==
    [code |-> code, main_wan |-> main, huge_wan |-> huge, large_wan |-> large,
     medium_wan |-> medium, small_wan |-> small, time |-> ts_now]

FlowPlaceholder(c) == FundFlow(c, None, None, None, None, None)

\* _secid: 深 0.XXXXXX, 沪 1.XXXXXX
_secid(c) == <<IF SubSeq(c, 1, 2) = <<"s", "h">> THEN "1" ELSE "0", Last6(c)>>

\* _yuan_to_wan_int: int(round(v / 1e4))
_yuan_to_wan_int(v) == IF v = None THEN None ELSE Some(RoundDiv(Val(v), 10000))

\* str.zfill(6)
RECURSIVE zfill6(_)
zfill6(s) == IF Len(s) >= 6 THEN s ELSE zfill6(<<"0">> \o s)

Max(S) == CHOOSE m \in S : \A x \in S : x <= m

\* code_map.get(num), with code_map = {c[-6:]: c for c in norm}
code_map_get(norm, num) ==
    LET at == {i \in 1..Len(norm) : Last6(norm[i]) = num} IN
    IF at = {} THEN None ELSE Some(norm[Max(at)])

\* the loop over diff; an item that is no JSON object raises and ends it
RECURSIVE FlowLoop(_, _, _)
FlowLoop(diff, norm, res) ==
    IF diff = <<>> THEN res
    ELSE LET it == Head(diff) IN
         IF it.k # "row" THEN res
         ELSE LET full == code_map_get(norm, zfill6(it.f12)) IN
              IF full = None THEN FlowLoop(Tail(diff), norm, res)
              ELSE FlowLoop(Tail(diff), norm,
                            Put(res, Val(full),
                                FundFlow(Val(full),
                                         _yuan_to_wan_int(_to_float(it.f62)),
                                         _yuan_to_wan_int(_to_float(it.f66)),
                                         _yuan_to_wan_int(_to_float(it.f69)),
                                         _yuan_to_wan_int(_to_float(it.f72)),
                                         _yuan_to_wan_int(_to_float(it.f75)))))

\* 补齐没返回的
RECURSIVE FillMissing(_, _, _)
FillMissing(norm, i, res) ==
    IF i > Len(norm) THEN res
    ELSE FillMissing(norm, i + 1,
                     IF norm[i] \in DOMAIN res THEN res
                     ELSE Put(res, norm[i], FlowPlaceholder(norm[i])))

\* get_fund_flow_batch that returns only the rows the provider sent
get_fund_flow_batch_NoFill(codes, reply) ==
    IF codes = <<>> THEN [raised |-> FALSE, value |-> EmptyDict, requests |-> 0]
    ELSE IF \E i \in 1..Len(codes) : normalize_code(codes[i]).raised
    THEN [raised |-> TRUE, value |-> EmptyDict, requests |-> 0]
    ELSE LET norm == [i \in 1..Len(codes) |-> normalize_code(codes[i]).value] IN
         [raised |-> FALSE,
          value |-> IF reply.k = "rows" THEN FlowLoop(reply.diff, norm, EmptyDict)
                    ELSE EmptyDict,
          requests |-> 1]

\* get_fund_flow_batch: reply is what the one requests.get call met
\* ([k |-> "conn_error" | "bad_status" | "bad_json" | "no_data" | "rows", diff]).
get_fund_flow_batch(codes, reply) ==
    IF codes = <<>> THEN [raised |-> FALSE, value |-> EmptyDict, requests |-> 0]
    ELSE IF \E i \in 1..Len(codes) : normalize_code(codes[i]).raised
    THEN [raised |-> TRUE, value |-> EmptyDict, requests |-> 0]
    ELSE LET norm == [i \in 1..Len(codes) |-> normalize_code(codes[i]).value]
             got == IF reply.k = "rows" THEN FlowLoop(reply.diff, norm, EmptyDict)
                    ELSE EmptyDict
         IN  [raised |-> FALSE, value |-> FillMissing(norm, 1, got), requests |-> 1]

(***************************************************************************)
(* The world outside: the environment variable, the securities and what    *)
(* the providers may answer.                                               *)
(***************************************************************************)
MaxCodes == 2

SH000001 == <<"s", "h", "0", "0", "0", "0", "0", "1">>
SZ000001 == <<"s", "z", "0", "0", "0", "0", "0", "1">>
SH600519 == <<"s", "h", "6", "0", "0", "5", "1", "9">>
Codes == {SH000001, SZ000001, SH600519}

CodeLists == UNION {[1..n -> Codes] : n \in 0..MaxCodes}

EnvValues == {None, Some(<<" ", " ">>), Some(<<"A">>), Some(<<" ", "B">>)}

\* ---- pro.moneyflow_hsgt
GroupShapes ==
    {<<"num", "abs", "abs", "abs">>, <<"abs", "num", "abs", "abs">>,
     <<"nan", "num", "num", "abs">>, <<"abs", "abs", "abs", "num">>,
     <<"abs", "abs", "abs", "abs">>, <<"nan", "nan", "abs", "abs">>,
     <<"num", "nan", "num", "abs">>}

IndexOf(seq, x) == CHOOSE i \in 1..Len(seq) : seq[i] = x

\* the cells of one alias group; every column holds a different amount
GroupCols(aliases, shape, base) ==
    [c \in {aliases[i] : i \in {j \in 1..Len(aliases) : shape[j] # "abs"}} |->
        IF shape[IndexOf(aliases, c)] = "nan" THEN NanCell
        ELSE NumCell(base + 1111 * IndexOf(aliases, c) + 3)]

Merge(f, g) == [x \in (DOMAIN f) \cup (DOMAIN g) |-> IF x \in DOMAIN f THEN f[x] ELSE g[x]]

HsgtRows ==
    {[trade_date |-> 2,
      cols |-> Merge(GroupCols(ShAliases, a, 10000),
                     Merge(GroupCols(SzAliases, b, -30000),
                           GroupCols(TotalAliases, c, 50000)))] :
        a \in GroupShapes, b \in GroupShapes, c \in GroupShapes}

OldRow ==
    [trade_date |-> 1,
     cols |-> Merge(GroupCols(ShAliases, <<"num", "num", "num", "num">>, 70000),
                    Merge(GroupCols(SzAliases, <<"num", "num", "num", "num">>, -80000),
                          GroupCols(TotalAliases, <<"num", "num", "num", "num">>, 90000)))]

HsgtRaise == [k |-> "raise", df |-> <<>>]
HsgtEmpty == [k |-> "empty", df |-> <<>>]
HsgtReplies ==
    {HsgtRaise, HsgtEmpty}
    \cup {[k |-> "rows", df |-> <<r>>] : r \in HsgtRows}
    \cup {[k |-> "rows", df |-> <<OldRow, r>>] : r \in HsgtRows}
    \cup {[k |-> "rows", df |-> <<r, OldRow>>] : r \in HsgtRows}

\* ---- ts.pro_bar, pro.daily, pro.stock_basic
PriceFen(c) == CASE c = SH000001 -> 312345 [] c = SZ000001 -> 1087 [] OTHER -> 185012
VolHand(c) == CASE c = SH000001 -> 5003 [] c = SZ000001 -> 54321 [] OTHER -> 321
PctMilli(c) == CASE c = SH000001 -> 1234 [] c = SZ000001 -> -566 [] OTHER -> 7
PreCloseFen(c) == CASE c = SH000001 -> 310000 [] c = SZ000001 -> 1100 [] OTHER -> 184000
PrevRowCloseFen(c) == CASE c = SH000001 -> 311000 [] c = SZ000001 -> 1090 [] OTHER -> 183000

Bar(k, close, vol, pct_chg) == [k |-> k, close |-> close, vol |-> vol, pct_chg |-> pct_chg]
BarRaise == Bar("raise", NoCell, NoCell, NoCell)
BarEmpty == Bar("empty", NoCell, NoCell, NoCell)
BarFull(c) == Bar("rows", NumCell(PriceFen(c)), NumCell(VolHand(c)), TxtCell(PctMilli(c)))
BarNoPct(c) == Bar("rows", NumCell(PriceFen(c)), NumCell(VolHand(c)), NoCell)
BarNoClose(c) == Bar("rows", NanCell, NumCell(VolHand(c)), NoCell)
BarNoVol(c) == Bar("rows", NumCell(PriceFen(c)), NoCell, TxtCell(PctMilli(c)))

Daily(k, has_pre_close, pre_close, n, prev_row_close) ==
    [k |-> k, has_pre_close |-> has_pre_close, pre_close |-> pre_close, n |-> n,
     prev_row_close |-> prev_row_close]
DailyRaise == Daily("raise", FALSE, NoCell, 0, NoCell)
DailyEmpty == Daily("empty", FALSE, NoCell, 0, NoCell)
DailyPre(c) == Daily("rows", TRUE, NumCell(PreCloseFen(c)), 1, NoCell)
DailyZero == Daily("rows", TRUE, NumCell(0), 1, NoCell)
DailyOneRow == Daily("rows", FALSE, NoCell, 1, NoCell)
DailyTwoRows(c) == Daily("rows", FALSE, NoCell, 2, NumCell(PrevRowCloseFen(c)))

QuoteWorld(basic, bar, daily) == [basic |-> basic, bar |-> bar, daily |-> daily]

\* what the three TuShare calls may answer for code c
QuoteWorlds(c) ==
    {QuoteWorld("ok", BarRaise, DailyEmpty),
     QuoteWorld("ok", BarFull(c), DailyEmpty),
     QuoteWorld("raise", BarFull(c), DailyEmpty),
     QuoteWorld("ok", BarEmpty, DailyPre(c)),
     QuoteWorld("ok", BarNoPct(c), DailyPre(c)),
     QuoteWorld("ok", BarNoPct(c), DailyRaise),
     QuoteWorld("ok", BarNoPct(c), DailyZero),
     QuoteWorld("ok", BarNoPct(c), DailyOneRow),
     QuoteWorld("ok", BarNoPct(c), DailyTwoRows(c)),
     QuoteWorld("ok", BarNoClose(c), DailyPre(c)),
     QuoteWorld("empty", BarNoVol(c), DailyEmpty)}

QuoteBehaviours(codes) ==
    {b \in [1..Len(codes) -> UNION {QuoteWorlds(c) : c \in Codes}] :
        \A i \in 1..Len(codes) : b[i] \in QuoteWorlds(codes[i])}

\* ---- Eastmoney push2 ulist.np
\* The net amounts (元) Eastmoney holds for the security with this secid
FlowBase(sid) ==
    CASE sid = _secid(SH000001) -> 1
      [] sid = _secid(SZ000001) -> 2
      [] OTHER -> 3

FlowYuan(sid, field) ==
    CASE field = "f62" -> FlowBase(sid) * 100000000 + 15000
      [] field = "f66" -> 0 - FlowBase(sid) * 10000000 - 25000
      [] field = "f69" -> FlowBase(sid) * 1000000 + 4999
      [] field = "f72" -> 0 - FlowBase(sid) * 10000 - 5001
      [] OTHER -> 0

RECURSIVE StripZeros(_)
StripZeros(s) == IF s # <<>> /\ Head(s) = "0" THEN StripZeros(Tail(s)) ELSE s

FlowVariants == {"full", "dash", "intf12"}

\* the item of diff that answers secid sid: f12 is the bare number only
FlowRow(sid, variant) ==
    LET cell(field) == IF variant = "dash" THEN DashCell ELSE NumCell(FlowYuan(sid, field)) IN
    [k |-> "row", mkt |-> sid[1],
     f12 |-> IF variant = "intf12" THEN StripZeros(sid[2]) ELSE sid[2],
     f62 |-> cell("f62"), f66 |-> cell("f66"), f69 |-> cell("f69"),
     f72 |-> cell("f72"), f75 |-> cell("f75")]

NoF12Row ==
    [k |-> "row", mkt |-> "0", f12 |-> <<>>, f62 |-> NumCell(1), f66 |-> NumCell(1),
     f69 |-> NumCell(1), f72 |-> NumCell(1), f75 |-> NumCell(1)]
GarbageItem ==
    [k |-> "garbage", mkt |-> "0", f12 |-> <<>>, f62 |-> NoCell, f66 |-> NoCell,
     f69 |-> NoCell, f72 |-> NoCell, f75 |-> NoCell]

InjSeqs(D) ==
    {s \in UNION {[1..n -> D] : n \in 0..Cardinality(D)} :
        \A i, j \in 1..Len(s) : i # j => s[i] # s[j]}

\* the diff lists Eastmoney may send for the requested secids: rows for any
\* of them in any order, alone, behind a row without f12, or before an item
\* that is no object
FlowDiffs(sids) ==
    LET plain == UNION {{[i \in 1..Len(s) |-> FlowRow(s[i], v[i])] :
                            v \in [1..Len(s) -> FlowVariants]} : s \in InjSeqs(sids)}
    IN  plain \cup {<<NoF12Row>> \o d : d \in plain} \cup {d \o <<GarbageItem>> : d \in plain}

FlowFailures ==
    {[k |-> x, diff |-> <<>>] : x \in {"conn_error", "bad_status", "bad_json", "no_data"}}
TransientFailures == {"conn_error", "bad_status"}

FlowReplies(sids) == FlowFailures \cup {[k |-> "rows", diff |-> d] : d \in FlowDiffs(sids)}

\* the reply a second request would get: the full rows, in request order
RECURSIVE FullDiff(_)
FullDiff(norm) ==
    IF norm = <<>> THEN <<>> ELSE <<FlowRow(_secid(Head(norm)), "full")>> \o FullDiff(Tail(norm))

(***************************************************************************)
(* SpecProviders: calls into data_providers from a caller, one at a time.  *)
(***************************************************************************)
\* the environment variable is set, changed or removed
SetEnv(v) ==
    /\ call.fn = "none"
    /\ env # v
    /\ env' = v
    /\ UNCHANGED <<PRO, call, result>>
    /\ UNCHANGED nonProvVars

Call_get_pro ==
    /\ call.fn = "none"
    /\ LET gp == _get_pro(PRO, env) IN
       /\ PRO' = gp.PRO
       /\ result' = IF gp.raised THEN None ELSE gp.PRO
       /\ call' = Call("_get_pro", <<>>, gp.raised, gp.readEnv, 0, <<>>)
    /\ UNCHANGED env
    /\ UNCHANGED nonProvVars

Call_get_northbound_overview ==
    /\ call.fn = "none"
    /\ \E today \in HsgtReplies :
       \E week \in IF today.k = "empty" THEN HsgtReplies ELSE {HsgtEmpty} :
          LET gp == _get_pro(PRO, env) IN
          /\ PRO' = gp.PRO
          /\ result' = get_northbound_overview(gp, today, week)
          /\ call' = Call("get_northbound_overview", <<>>, FALSE, gp.readEnv, 0,
                          <<today, week>>)
    /\ UNCHANGED env
    /\ UNCHANGED nonProvVars

Call_get_realtime_quotes ==
    /\ call.fn = "none"
    /\ \E codes \in CodeLists :
       \E beh \in QuoteBehaviours(codes) :
          LET gp == IF codes = <<>> THEN [raised |-> FALSE, PRO |-> PRO, readEnv |-> FALSE]
                    ELSE _get_pro(PRO, env)
              r == get_realtime_quotes(codes, gp, beh)
          IN  /\ PRO' = gp.PRO
              /\ result' = r.value
              /\ call' = Call("get_realtime_quotes", codes, r.raised, gp.readEnv, 0,
                              IF gp.raised THEN <<>> ELSE beh)
    /\ UNCHANGED env
    /\ UNCHANGED nonProvVars

Call_get_fund_flow_batch ==
    /\ call.fn = "none"
    /\ \E codes \in CodeLists :
       \E reply \in FlowReplies({_secid(codes[i]) : i \in 1..Len(codes)}) :
       \E retry \in IF reply.k \in TransientFailures THEN {"fails", "succeeds"} ELSE {"none"} :
          LET r == get_fund_flow_batch(codes, reply) IN
          /\ codes = <<>> => reply.k = "no_data"
          /\ result' = r.value
          /\ call' = Call("get_fund_flow_batch", codes, r.raised, FALSE, r.requests,
                          <<reply, retry>>)
    /\ UNCHANGED <<env, PRO>>
    /\ UNCHANGED nonProvVars

\* the caller takes the result
Return ==
    /\ call.fn # "none"
    /\ call' = NoCall
    /\ result' = None
    /\ UNCHANGED <<env, PRO>>
    /\ UNCHANGED nonProvVars

ProvInit ==
    /\ env \in EnvValues
    /\ PRO = None
    /\ call = NoCall
    /\ result = None
    /\ NormIdle
    /\ FeedIdle
    /\ BatchIdle

ProvNext ==
    \/ \E v \in EnvValues : SetEnv(v)
    \/ Call_get_pro
    \/ Call_get_northbound_overview
    \/ Call_get_realtime_quotes
    \/ Call_get_fund_flow_batch
    \/ Return

SpecProviders == ProvInit /\ [][ProvNext]_vars

NumericFieldsAbsent(q) == q.price = None /\ q.pct = None /\ q.amount_wan = None

RequestedCodes == {call.codes[i] : i \in 1..Len(call.codes)}

C8_TransientFailureIsRetried ==
    (/\ call.fn = "get_fund_flow_batch"
     /\ call.codes # <<>>
     /\ call.plan[1].k \in TransientFailures
     /\ call.plan[2] = "succeeds")
        => /\ call.requests >= 2
           /\ result = get_fund_flow_batch(call.codes,
                                           [k |-> "rows", diff |-> FullDiff(call.codes)]).value

Blank(e) == e = None \/ \A i \in 1..Len(Val(e)) : Val(e)[i] = " "

\* C9: once _PRO is set it never changes; a call of _get_pro made when _PRO is
\* set returns that client without reading the environment; a call made when
\* _PRO is unset reads the environment and, if the variable is absent or
\* blank, raises and leaves _PRO unset, else returns and caches a client for
\* the token.
C9_CredentialCachedForLifetime ==
    [][/\ PRO # None => PRO' = PRO
       /\ (call.fn = "none" /\ call'.fn = "_get_pro") =>
             /\ PRO # None => (~call'.raised /\ result' = PRO /\ ~call'.readEnv)
             /\ (PRO = None /\ Blank(env)) =>
                   (call'.raised /\ PRO' = None /\ call'.readEnv)
             /\ (PRO = None /\ ~Blank(env)) =>
                   /\ ~call'.raised /\ call'.readEnv
                   /\ PRO' = Some(strip(Val(env)))
                   /\ result' = PRO']_vars

C9_Witness ==
    /\ call.fn = "_get_pro"
    /\ PRO = Some(<<"A">>)
    /\ env = None
    /\ result = Some(<<"A">>)
    /\ ~call.readEnv

\* the net amounts (万元) of the security that canonical code c names
FlowWanOf(c, field) == Some(RoundDiv(FlowYuan(_secid(c), field), 10000))

\* C10: the FundFlow record returned under code c holds only values of the
\* provider row for that same exchange and number.
C10_FlowsJoinedByCanonicalCode ==
    call.fn = "get_fund_flow_batch" =>
        \A c \in DOMAIN result :
            /\ result[c].main_wan \in {None, FlowWanOf(c, "f62")}
            /\ result[c].huge_wan \in {None, FlowWanOf(c, "f66")}
            /\ result[c].large_wan \in {None, FlowWanOf(c, "f69")}
            /\ result[c].medium_wan \in {None, FlowWanOf(c, "f72")}
            /\ result[c].small_wan \in {None, FlowWanOf(c, "f75")}

\* ---- get_northbound_overview on its own
NorthNext ==
    \/ \E v \in EnvValues : SetEnv(v)
    \/ Call_get_northbound_overview
    \/ Return

SpecNorth == ProvInit /\ [][NorthNext]_vars

Min(S) == CHOOSE m \in S : \A x \in S : m <= x

\* the reply get_northbound_overview used: today's, or the week's if today's
\* was empty
NorthReply == IF call.plan[1].k = "empty" THEN call.plan[2] ELSE call.plan[1]

\* get_northbound_overview got a client and a reply with rows
NorthAnswered ==
    /\ call.fn = "get_northbound_overview"
    /\ PRO # None
    /\ NorthReply.k = "rows"

\* the row with the latest trade_date
NorthRow ==
    LET df == NorthReply.df
        i == CHOOSE i \in 1..Len(df) : \A j \in 1..Len(df) : df[j].trade_date <= df[i].trade_date
    IN  df[i].cols

\* the positions of the aliases that are columns of the row, and of those
\* whose cell converts to a number
PresentAt(row, aliases) == {i \in 1..Len(aliases) : aliases[i] \in DOMAIN row}
UsableAt(row, aliases) == {i \in PresentAt(row, aliases) : row[aliases[i]].k \in {"num", "txt"}}

\* the value of the first alias present in the row (None if its cell holds no
\* number, or no alias is present)
FirstPresent(row, aliases) ==
    IF PresentAt(row, aliases) = {} THEN None
    ELSE LET cell == row[aliases[Min(PresentAt(row, aliases))]] IN
         IF cell.k \in {"num", "txt"} THEN Some(cell.v) ELSE None

\* the value of the first alias present in the row whose cell converts to a
\* number
FirstUsable(row, aliases) ==
    IF UsableAt(row, aliases) = {} THEN None
    ELSE Some(row[aliases[Min(UsableAt(row, aliases))]].v)

\* rounded to two decimals of 亿元, absent kept
Rounded2(o) == IF o = None THEN None ELSE Some(RoundDiv(Val(o), 10) * 10)

\* C11 as stated: sh, sz and total are each the value of the first alias, in
\* list order, that is a column of the row, absent only when no alias is a
\* column; total falls back to sh + sz exactly when no total alias gives a
\* value and sh and sz are both present.
C11_FirstPresentAliasWinsAsStated ==
    NorthAnswered =>
        LET sh == FirstPresent(NorthRow, ShAliases)
            sz == FirstPresent(NorthRow, SzAliases)
            total == FirstPresent(NorthRow, TotalAliases)
        IN  /\ result.sh = Rounded2(sh)
            /\ result.sz = Rounded2(sz)
            /\ result.sh = None => PresentAt(NorthRow, ShAliases) = {}
            /\ result.sz = None => PresentAt(NorthRow, SzAliases) = {}
            /\ result.total =
                  IF total # None THEN Rounded2(total)
                  ELSE IF sh # None /\ sz # None THEN Rounded2(Some(Val(sh) + Val(sz)))
                  ELSE None

\* C11 (amended): sh, sz and total are each the value, rounded to two
\* decimals, of the first alias in list order that is a column of the row and
\* whose cell converts to a number (a column holding NaN, a dash or nothing is
\* passed over), absent only when no alias has such a cell; total falls back
\* to the rounded sum of the unrounded sh and sz exactly when no total alias
\* gives a value and sh and sz are both present, and is absent otherwise.
C11_FirstUsableAliasWins ==
    NorthAnswered =>
        LET sh == FirstUsable(NorthRow, ShAliases)
            sz == FirstUsable(NorthRow, SzAliases)
            total == FirstUsable(NorthRow, TotalAliases)
        IN  /\ result.sh = Rounded2(sh)
            /\ result.sz = Rounded2(sz)
            /\ result.sh = None <=> UsableAt(NorthRow, ShAliases) = {}
            /\ result.sz = None <=> UsableAt(NorthRow, SzAliases) = {}
            /\ result.total =
                  IF total # None THEN Rounded2(total)
                  ELSE IF sh # None /\ sz # None THEN Rounded2(Some(Val(sh) + Val(sz)))
                  ELSE None

\* sh_net holds NaN and hgt a number, no total alias gives a value: sh is
\* hgt's amount and total the rounded sum
C11_Witness ==
    /\ NorthAnswered
    /\ "sh_net" \in DOMAIN NorthRow /\ NorthRow["sh_net"] = NanCell
    /\ "north_sh" \in DOMAIN NorthRow
    /\ UsableAt(NorthRow, TotalAliases) = {}
    /\ result.sh = Some(12220)
    /\ result.sz = Some(-28890)
    /\ result.total = Some(-16660)

(***************************************************************************)
(* Rendering.  A rendered text is a sequence of pieces; a piece is a fixed *)
(* text or a formatted number.  The piece "None" is what an f-string makes *)
(* of Python's None, "TypeError" what a format spec applied to None does.  *)
(***************************************************************************)
Text(t) == [t |-> t, v |-> 0]
Num(t, v) == [t |-> t, v |-> v]

Dash == Text("dash")
RawNone == Text("None")
FormatError == Text("TypeError")

\* f"{x}": str(x)
Str(x) == IF x = None THEN RawNone ELSE Num("number", Val(x))

\* f"{x:.2f}", f"{x:+.2f}"
Fmt2f(x) == IF x = None THEN FormatError ELSE Num("number", Val(x))

Abs(n) == IF n < 0 THEN 0 - n ELSE n

\* build_all.to_yi_from_wan: v in 0.01 万元; "x.xx 亿" from 1 亿 on, else "y 万"
to_yi_from_wan(v) ==
    IF v = None THEN Dash
    ELSE IF Abs(Val(v)) >= 1000000 THEN Num("yi", RoundDiv(Val(v), 10000))
    ELSE Num("wan", RoundDiv(Val(v), 100))

\* build_all.fmt_wan_int: v in 万元
fmt_wan_int(v) == IF v = None THEN Dash ELSE Num("wan", Val(v))

\* build_all.dir_arrow
dir_arrow(v) ==
    IF v = None THEN Dash
    ELSE IF Val(v) > 0 THEN Text("inflow")
    ELSE IF Val(v) < 0 THEN Text("outflow")
    ELSE Dash

\* utils.fmt_yn
fmt_yn(v) == IF v = None THEN Dash ELSE Num("number", Val(v))

\* utils.fmt_pct
fmt_pct(v) ==
    IF v = None THEN Dash
    ELSE IF Val(v) >= 0 THEN Num("up_pct", Abs(Val(v))) ELSE Num("down_pct", Abs(Val(v)))

\* build_feed_for_user.nb_text
nb_text(ov) ==
    IF ov.total = None THEN <<Text("nb_unavailable")>>
    ELSE <<Text("nb"), Str(ov.sh), Str(ov.sz), Str(ov.total), Text(ov.time)>>

\* dict.get(key)
Get(d, key) == IF key \in DOMAIN d THEN Some(d[key]) ELSE None

Item(id, title, description) == [id |-> id, title |-> title, description |-> description]

day == "20261101"
minute == "202611010930"

\* the body of build_feed_for_user's loop over stocks
StockItem(user_id, c, quotes, flows) ==
    LET q == Get(quotes, c)
        f == Get(flows, c)
        name == IF q # None /\ Val(q).name # "" THEN Text(Val(q).name) ELSE Text("CODE")
        title_item ==
            IF q # None /\ Val(q).price # None /\ Val(q).pct # None
            THEN <<name, Fmt2f(Val(q).price), Fmt2f(Val(q).pct)>>
            ELSE IF q # None /\ Val(q).price # None
            THEN <<name, Fmt2f(Val(q).price)>>
            ELSE <<name, Text("quote_unavailable")>>
        desc_flow ==
            IF f # None
            THEN <<fmt_wan_int(Val(f).main_wan), dir_arrow(Val(f).main_wan),
                   fmt_wan_int(Val(f).huge_wan), dir_arrow(Val(f).huge_wan),
                   fmt_wan_int(Val(f).large_wan), dir_arrow(Val(f).large_wan),
                   fmt_wan_int(Val(f).medium_wan), dir_arrow(Val(f).medium_wan),
                   fmt_wan_int(Val(f).small_wan), dir_arrow(Val(f).small_wan)>>
            ELSE <<Text("no_flow_data")>>
        desc_amount ==
            IF q # None /\ Val(q).amount_wan # None
            THEN <<to_yi_from_wan(Val(q).amount_wan)>>
            ELSE <<>>
    IN  Item(<<user_id, c, day>>, title_item, desc_flow \o desc_amount)

\* the 快照 item
SnapshotItem(user_id, stocks, overview) ==
    Item(<<user_id, <<"snapshot">>, minute>>, <<Text("snapshot_title")>>,
         <<Text("updated")>> \o nb_text(overview) \o <<Num("count", Len(stocks))>>)

Raises(items) ==
    \E i \in 1..Len(items) :
        \/ \E j \in 1..Len(items[i].title) : items[i].title[j] = FormatError
        \/ \E j \in 1..Len(items[i].description) : items[i].description[j] = FormatError

\* the entries build_feed_for_user adds to the feed, in the order it adds them
FeedEntries(user_id, stocks, overview, quotes, flows) ==
    [i \in 1..Len(stocks) |-> StockItem(user_id, stocks[i], quotes, flows)]
    \o <<SnapshotItem(user_id, stocks, overview)>>

\* build_feed_for_user: user is what load_user_yaml returned; w holds the
\* replies of the providers and whether fg.rss_file can write.  Gives whether
\* it raised, the entries of the feed, the file written (None if none) and
\* _PRO on exit.
build_feed_for_user(user, pro, e, w) ==
    LET gp1 == _get_pro(pro, e)
        overview == get_northbound_overview(gp1, w.today, w.week)
        gp2 == IF user.stocks = <<>> THEN gp1 ELSE _get_pro(gp1.PRO, e)
        quotes == get_realtime_quotes(user.stocks, gp2, w.beh)
        flows == get_fund_flow_batch(user.stocks, w.reply)
        entries == FeedEntries(user.user_id, user.stocks, overview, quotes.value, flows.value)
        raised == quotes.raised \/ flows.raised \/ Raises(entries) \/ ~w.writable
    IN  [raised |-> raised,
         items |-> IF quotes.raised \/ flows.raised THEN <<>> ELSE entries,
         out |-> IF raised THEN None ELSE Some([user_id |-> user.user_id, token |-> user.token]),
         PRO |-> gp2.PRO]

(***************************************************************************)
(* main.py.  Its get_realtime_quotes returns a DataFrame (a sequence of    *)
(* rows) and its get_individual_moneyflow a dict of optional amounts;      *)
(* neither is the function of that name in data_providers.py.              *)
(***************************************************************************)
\* get_individual_moneyflow(code), as main.compose_items uses it
get_individual_moneyflow(code, reply) ==
    IF reply = "ok"
    THEN [main |-> FlowWanOf(code, "f62"), super |-> FlowWanOf(code, "f66"),
          large |-> FlowWanOf(code, "f69"), medium |-> FlowWanOf(code, "f72"),
          small |-> FlowWanOf(code, "f75"), ts |-> ts_now]
    ELSE [main |-> None, super |-> None, large |-> None, medium |-> None,
          small |-> None, ts |-> ts_now]

northline(north) ==
    <<Text("nb"), Str(north.sh), Str(north.sz), Str(north.total), Text(north.time)>>

\* the body of compose_items' loop over the rows of quotes_df
RowItem(row, mf, north) ==
    Item(<<row.code, "time">>,
         <<Text(row.name), fmt_pct(row.pct_chg), Str(row.price)>>,
         <<Text(row.name), Str(row.price), fmt_pct(row.pct_chg), Str(row.amount),
           fmt_yn(mf.main), fmt_yn(mf.super), fmt_yn(mf.large), fmt_yn(mf.medium),
           fmt_yn(mf.small), Text(mf.ts)>> \o northline(north))

HeartbeatItem(north) ==
    Item(<<<<"heartbeat">>, "time">>, <<Text("heartbeat"), Str(north.total)>>,
         <<Text("quotes_unavailable")>> \o northline(north))

\* compose_items without the heartbeat entry
compose_items_NoHeartbeat(quotes_df, north, mfs) ==
    IF quotes_df = None THEN <<>>
    ELSE [i \in 1..Len(Val(quotes_df)) |->
            RowItem(Val(quotes_df)[i],
                    get_individual_moneyflow(Val(quotes_df)[i].code, mfs[i]), north)]

\* compose_items: quotes_df is None or <<rows>>, north what
\* get_northbound_overview returned, mfs[i] the moneyflow reply for row i
compose_items(quotes_df, north, mfs) ==
    IF quotes_df = None \/ Val(quotes_df) = <<>> THEN <<HeartbeatItem(north)>>
    ELSE [i \in 1..Len(Val(quotes_df)) |->
            RowItem(Val(quotes_df)[i],
                    get_individual_moneyflow(Val(quotes_df)[i].code, mfs[i]), north)]

(***************************************************************************)
(* What the providers may answer while one feed is built.                  *)
(***************************************************************************)
FeedShapes == {<<"num", "abs", "abs", "abs">>, <<"abs", "abs", "abs", "abs">>}

FeedHsgtReplies ==
    {HsgtRaise}
    \cup {[k |-> "rows",
           df |-> <<[trade_date |-> 2,
                     cols |-> Merge(GroupCols(ShAliases, a, 10000),
                                    Merge(GroupCols(SzAliases, b, -30000),
                                          GroupCols(TotalAliases, c, 50000)))]>>] :
             a \in FeedShapes, b \in FeedShapes, c \in FeedShapes}

FeedQuoteWorlds(c) ==
    {QuoteWorld("ok", BarRaise, DailyEmpty),
     QuoteWorld("ok", BarFull(c), DailyEmpty),
     QuoteWorld("raise", BarNoPct(c), DailyRaise),
     QuoteWorld("ok", BarNoVol(c), DailyEmpty)}

FeedFlowReplies(stocks) ==
    IF stocks = <<>> THEN {[k |-> "no_data", diff |-> <<>>]}
    ELSE {[k |-> "conn_error", diff |-> <<>>],
          [k |-> "rows", diff |-> FullDiff(stocks)],
          [k |-> "rows", diff |-> <<FlowRow(_secid(stocks[1]), "dash")>>]}

World(today, week, beh, reply, writable) ==
    [today |-> today, week |-> week, beh |-> beh, reply |-> reply, writable |-> writable]

BuildWorlds(stocks) ==
    {World(today, HsgtEmpty, beh, reply, writable) :
        today \in FeedHsgtReplies,
        beh \in {b \in [1..Len(stocks) -> UNION {FeedQuoteWorlds(c) : c \in Codes}] :
                    \A i \in 1..Len(stocks) : b[i] \in FeedQuoteWorlds(stocks[i])},
        reply \in FeedFlowReplies(stocks),
        writable \in BOOLEAN}

(***************************************************************************)
(* Config texts.  A text is known by its content s, the length of s, the   *)
(* classes of its characters and whether whitespace surrounds it.          *)
(***************************************************************************)
T(s, len, chars, padded) == [s |-> s, len |-> len, chars |-> chars, padded |-> padded]

\* str.strip() of a config text
strip_text(t) == [t EXCEPT !.padded = FALSE]

IdMinLen == 1
TokenMinLen == 6
MaxReLen == 32

\* USER_RE.match(t)
USER_RE_match(t) ==
    /\ ~t.padded
    /\ t.len >= IdMinLen /\ t.len <= MaxReLen
    /\ t.chars \subseteq {"alnum", "us_hy"}

\* TOKEN_RE.match(t)
TOKEN_RE_match(t) ==
    /\ ~t.padded
    /\ t.len >= TokenMinLen /\ t.len <= MaxReLen
    /\ t.chars \subseteq {"alnum"}

EmptyText == T("", 0, {}, FALSE)

(***************************************************************************)
(* build_all: configs, load_user_yaml and main.                            *)
(***************************************************************************)
MaxFiles == 2

\* A path of USERS_DIR.glob("*.yaml"): one that cannot be opened, a file
\* starting with "<", a YAML document that is no mapping, or a mapping.
Cfg(kind, user_id, token, stocks) ==
    [kind |-> kind, user_id |-> user_id, token |-> token, stocks |-> stocks]

Bare600519 == Some(<<<<"6", "0", "0", "5", "1", "9">>>>)

ConfigCatalog ==
    {Cfg("unreadable", EmptyText, EmptyText, None),
     Cfg("html", EmptyText, EmptyText, None),
     Cfg("scalar", EmptyText, EmptyText, None),
     Cfg("dict", T("alice", 5, {"alnum"}, FALSE), T("abc123", 6, {"alnum"}, FALSE), Bare600519),
     Cfg("dict", T("a_b-c", 5, {"alnum", "us_hy"}, FALSE), T("t32", 32, {"alnum"}, FALSE),
         Some(<<SH000001, SZ000001>>)),
     Cfg("dict", T("carol", 5, {"alnum"}, TRUE), T("xyz789", 6, {"alnum"}, TRUE), Some(<<>>)),
     Cfg("dict", T("alice", 5, {"alnum"}, FALSE), T("abc12", 5, {"alnum"}, FALSE), Bare600519),
     Cfg("dict", T("alice", 5, {"alnum"}, FALSE), T("abc-123", 7, {"alnum", "us_hy"}, FALSE),
         Bare600519),
     Cfg("dict", T("alice", 5, {"alnum"}, FALSE), T("t33", 33, {"alnum"}, FALSE), Bare600519),
     Cfg("dict", EmptyText, T("abc123", 6, {"alnum"}, FALSE), Bare600519),
     Cfg("dict", T("bob smith!", 10, {"alnum", "other"}, FALSE),
         T("abc123", 6, {"alnum"}, FALSE), Bare600519),
     Cfg("dict", T("u33", 33, {"alnum"}, FALSE), T("abc123", 6, {"alnum"}, FALSE), Some(<<>>)),
     Cfg("dict", T("u32", 32, {"alnum"}, FALSE), T("abc123", 6, {"alnum"}, FALSE),
         Some(<<<<" ", "S", "Z", "0", "0", "0", "0", "0", "1">>, SZ000001>>)),
     Cfg("dict", T("dave", 4, {"alnum"}, FALSE), T("abc123", 6, {"alnum"}, FALSE),
         Some(<<<<"6", "0", "0", "5", "1">>>>)),
     Cfg("dict", T("erin", 4, {"alnum"}, FALSE), T("t32", 32, {"alnum"}, FALSE), None)}

Raised == [raised |-> TRUE, value |-> <<>>]

User(user_id, token, stocks) == [user_id |-> user_id, token |-> token, stocks |-> stocks]

\* load_user_yaml: raises for a document that is no mapping, an empty user_id,
\* a token TOKEN_RE rejects, stocks that cannot be iterated and a stock code
\* normalize_code rejects
load_user_yaml(cfg) ==
    IF cfg.kind # "dict" THEN Raised
    ELSE LET user_id == strip_text(cfg.user_id)
             token == strip_text(cfg.token)
         IN  IF user_id.len = 0 \/ ~TOKEN_RE_match(token) THEN Raised
             ELSE IF cfg.stocks = None THEN Raised
             ELSE LET ns == [i \in 1..Len(Val(cfg.stocks)) |-> normalize_code(Val(cfg.stocks)[i])] IN
                  IF \E i \in 1..Len(ns) : ns[i].raised THEN Raised
                  ELSE Returned(User(user_id, token, [i \in 1..Len(ns) |-> ns[i].value]))

\* the file name {user_id}-{token}.xml
FileName(user_id, token) == [user_id |-> user_id, token |-> token]

\* main.run_for_user: quotes_df is what main.py's get_realtime_quotes returned
run_for_user(user_cfg, quotes_df, north, mfs, writable) ==
    LET user_id == strip_text(user_cfg.user_id)
        token == strip_text(user_cfg.token)
    IN  IF ~USER_RE_match(user_id) THEN [raised |-> TRUE, items |-> <<>>, out |-> None]
        ELSE IF ~TOKEN_RE_match(token) THEN [raised |-> TRUE, items |-> <<>>, out |-> None]
        ELSE LET items == compose_items(quotes_df, north, mfs) IN
             IF Raises(items) \/ ~writable THEN [raised |-> TRUE, items |-> items, out |-> None]
             ELSE [raised |-> FALSE, items |-> items, out |-> Some(FileName(user_id, token))]

\* what the providers may answer while main() builds one user's feed
BatchWorlds(stocks) ==
    {World(today, HsgtEmpty,
           [i \in 1..Len(stocks) |->
               QuoteWorld("ok", IF bar = "full" THEN BarFull(stocks[i]) ELSE BarRaise, DailyEmpty)],
           reply, writable) :
        today \in {HsgtRaise, [k |-> "rows", df |-> <<OldRow>>]},
        bar \in {"raise", "full"},
        reply \in FeedFlowReplies(stocks),
        writable \in BOOLEAN}

\* ---- main(), one step of its loops at a time
Main_start ==
    /\ bpc = "start"
    /\ bpc' = "load"
    /\ idx' = 1
    /\ UNCHANGED <<configs, users, generated, written, built>>
    /\ UNCHANGED nonBatchVars

\* one pass of the loop over sorted(USERS_DIR.glob("*.yaml"))
Main_load ==
    /\ bpc = "load"
    /\ idx <= Len(configs)
    /\ LET p == configs[idx]
           loaded == load_user_yaml(p)
       IN  IF p.kind = "unreadable"
           THEN /\ bpc' = "crashed"
                /\ UNCHANGED <<idx, users>>
           ELSE /\ users' = IF p.kind = "html" \/ loaded.raised THEN users
                            ELSE Append(users, loaded.value)
                /\ idx' = idx + 1
                /\ bpc' = "load"
    /\ UNCHANGED <<configs, generated, written, built>>
    /\ UNCHANGED nonBatchVars

Main_loaded ==
    /\ bpc = "load"
    /\ idx > Len(configs)
    /\ bpc' = "build"
    /\ idx' = 1
    /\ UNCHANGED <<configs, users, generated, written, built>>
    /\ UNCHANGED nonBatchVars

\* one pass of the loop over users
Main_build ==
    /\ bpc = "build"
    /\ idx <= Len(users)
    /\ \E w \in BatchWorlds(users[idx].stocks) :
          LET r == build_feed_for_user(users[idx], PRO, env, w) IN
          /\ PRO' = r.PRO
          /\ written' = IF r.raised THEN written ELSE written \cup {Val(r.out)}
          /\ generated' = IF r.raised THEN generated ELSE Append(generated, Val(r.out))
          /\ built' = Append(built, ~r.raised)
    /\ idx' = idx + 1
    /\ UNCHANGED <<configs, users, bpc>>
    /\ UNCHANGED <<raw, n1, n2, npc, env, call, result, feed>>

Main_done ==
    /\ bpc = "build"
    /\ idx > Len(users)
    /\ bpc' = "done"
    /\ UNCHANGED <<configs, users, idx, generated, written, built>>
    /\ UNCHANGED nonBatchVars

DfRow(c, variant) ==
    IF variant = "full"
    THEN [code |-> c, name |-> NameOf(_to_ts_code(c)), price |-> Some(PriceFen(c)),
          pct_chg |-> Some(PctMilli(c)), amount |-> Some(PriceFen(c)), time |-> ts_now]
    ELSE [code |-> c, name |-> NameOf(_to_ts_code(c)), price |-> None, pct_chg |-> None,
          amount |-> None, time |-> ts_now]

\* the quotes_df main.py's get_realtime_quotes may return
DataFrames ==
    {None}
    \cup {Some([i \in 1..Len(cs) |-> DfRow(cs[i], vs[i])]) :
            cs \in CodeLists, vs \in [1..MaxCodes -> {"full", "absent"}]}

\* main.run_for_user, called for the mapping one of the configs holds
Run_for_user ==
    /\ bpc = "start"
    /\ \E i \in 1..Len(configs) :
       \E quotes_df \in {None, Some(<<>>), Some(<<DfRow(SH600519, "full")>>)} :
       \E today \in {HsgtRaise, [k |-> "rows", df |-> <<OldRow>>]} :
       \E mf \in {"ok", "fails"}, writable \in BOOLEAN :
          LET user_cfg == configs[i]
              gp == _get_pro(PRO, env)
              ok == /\ USER_RE_match(strip_text(user_cfg.user_id))
                    /\ TOKEN_RE_match(strip_text(user_cfg.token))
              r == run_for_user(user_cfg, quotes_df,
                                get_northbound_overview(gp, today, HsgtEmpty),
                                <<mf>>, writable)
          IN  /\ user_cfg.kind = "dict"
              /\ PRO' = IF ok THEN gp.PRO ELSE PRO
              /\ written' = IF r.raised THEN written ELSE written \cup {Val(r.out)}
    /\ bpc' = "ran"
    /\ UNCHANGED <<configs, users, idx, generated, built>>
    /\ UNCHANGED <<raw, n1, n2, npc, env, call, result, feed>>

BatchInit ==
    /\ configs \in UNION {[1..n -> ConfigCatalog] : n \in 1..MaxFiles}
    /\ bpc = "start"
    /\ idx = 0
    /\ users = <<>>
    /\ generated = <<>>
    /\ written = {}
    /\ built = <<>>
    /\ NormIdle
    /\ env \in {None, Some(<<"A">>)}
    /\ PRO = None
    /\ call = NoCall
    /\ result = None
    /\ FeedIdle

BatchNext ==
    \/ Main_start
    \/ Main_load
    \/ Main_loaded
    \/ Main_build
    \/ Main_done
    \/ Run_for_user

Spec == BatchInit /\ [][BatchNext]_vars


\* a config that loads and validates: a mapping with a non-empty identifier,
\* a token of 6 to 32 letters or digits and a list of well-formed stock codes
ValidConfig(p) ==
    /\ p.kind = "dict"
    /\ p.user_id.len >= 1
    /\ p.token.len >= 6 /\ p.token.len <= 32 /\ p.token.chars \subseteq {"alnum"}
    /\ p.stocks # None
    /\ \A i \in 1..Len(Val(p.stocks)) : WellFormedText(lower(strip(Val(p.stocks)[i])))

ExpectedFile(p) == FileName(strip_text(p.user_id), strip_text(p.token))

\* C1: main never raises, and when it has returned every valid config's build
\* was attempted and the files written are exactly those of the valid
\* configs whose build returned.
C1_OneUserFailureNeverStopsRun ==
    /\ bpc # "crashed"
    /\ bpc = "done" =>
          LET valid == SelectSeq(configs, ValidConfig) IN
          /\ Len(built) = Len(valid)
          /\ written = {ExpectedFile(valid[k]) : k \in {j \in 1..Len(valid) : built[j]}}

\* C2: every feed file written carries an identifier of 1 to 32 letters,
\* digits, underscores or hyphens and a token of 6 to 32 letters or digits.
C2_FileOnlyForValidatedIdAndToken ==
    \A f \in written :
        /\ ~f.user_id.padded /\ f.user_id.len >= 1 /\ f.user_id.len <= 32
        /\ f.user_id.chars \subseteq {"alnum", "us_hy"}
        /\ ~f.token.padded /\ f.token.len >= 6 /\ f.token.len <= 32
        /\ f.token.chars \subseteq {"alnum"}

\* ---- one feed composed
Feed(fn, raised, items, stocks, quotes_df) ==
    [fn |-> fn, raised |-> raised, items |-> items, stocks |-> stocks, quotes_df |-> quotes_df]

Build_feed_for_user ==
    /\ feed.fn = "none"
    /\ \E stocks \in CodeLists :
       \E w \in BuildWorlds(stocks) :
          LET user == User(T("alice", 5, {"alnum"}, FALSE), T("abc123", 6, {"alnum"}, FALSE),
                           stocks)
              r == build_feed_for_user(user, PRO, env, w)
          IN  /\ PRO' = r.PRO
              /\ feed' = Feed("build_feed_for_user", r.raised, r.items, stocks, None)
    /\ UNCHANGED <<raw, n1, n2, npc, env, call, result>>
    /\ UNCHANGED batchVars

Compose_items ==
    /\ feed.fn = "none"
    /\ \E quotes_df \in DataFrames :
       \E today \in FeedHsgtReplies, mfs \in [1..MaxCodes -> {"ok", "fails"}] :
          LET gp == _get_pro(PRO, env)
              items == compose_items(quotes_df, get_northbound_overview(gp, today, HsgtEmpty),
                                     mfs)
          IN  /\ PRO' = gp.PRO
              /\ feed' = Feed("compose_items", Raises(items), items, <<>>, quotes_df)
    /\ UNCHANGED <<raw, n1, n2, npc, env, call, result>>
    /\ UNCHANGED batchVars

FeedInit ==
    /\ feed = NoFeed
    /\ env \in {None, Some(<<"A">>)}
    /\ PRO = None
    /\ call = NoCall
    /\ result = None
    /\ NormIdle
    /\ BatchIdle

FeedNext == Build_feed_for_user \/ Compose_items

SpecFeed == FeedInit /\ [][FeedNext]_vars

Pieces(item) == {item.title[j] : j \in 1..Len(item.title)}
                \cup {item.description[j] : j \in 1..Len(item.description)}

\* C5: composing a feed never raises, and no entry shows an absent value as
\* the raw None: every absent value is rendered as a placeholder.
C5_AbsentRendersPlaceholder ==
    feed.fn # "none" =>
        /\ ~Raises(feed.items)
        /\ \A i \in 1..Len(feed.items) : RawNone \notin Pieces(feed.items[i])

RawStockLists ==
    {Some(cs) : cs \in CodeLists}
    \cup {Some(<<<<"6", "0", "0", "5", "1", "9">>, SH600519>>),
          Some(<<<<" ", "S", "Z", "0", "0", "0", "0", "0", "1">>, SZ000001>>)}

\* load_user_yaml accepts a config of this user whose stocks normalise to
\* this list
AcceptedStocks(user_id, token, stocks) ==
    \E raws \in RawStockLists :
        load_user_yaml(Cfg("dict", user_id, token, raws)) = Returned(User(user_id, token, stocks))

\* C12: in a feed build_feed_for_user made for an accepted config, no two
\* entries carry the same identifier.
C12_ItemIdsPairwiseDistinct ==
    (/\ feed.fn = "build_feed_for_user"
     /\ feed.items # <<>>
     /\ AcceptedStocks(feed.items[1].id[1], T("abc123", 6, {"alnum"}, FALSE), feed.stocks))
        => \A i, j \in 1..Len(feed.items) :
               i # j => feed.items[i].id # feed.items[j].id


====
